---------------------------- MODULE Spec2Model ----------------------------
(***************************************************************************)
(* Model of netlify/functions/verify-ad-copy.js: the stateless handler     *)
(* that checks ad copy against per-platform character limits.              *)
(*                                                                         *)
(* One invocation of exports.handler is modelled as a run through the      *)
(* handler's stages: request parsing, input validation, the platform       *)
(* check, items.map, and the summary/response.  JavaScript values are      *)
(* tagged records; a JSON document (the POST body, the `data` query        *)
(* parameter) is either malformed text or text denoting a JSON value.      *)
(***************************************************************************)
EXTENDS Integers, Sequences, FiniteSets, TLC

VARIABLES
    pc,        \* position of the handler: idle, start, parsed, validated, checked, verified, catch, done
    event,     \* the request being handled
    platform,  \* `let platform` (line 15)
    items,     \* `let items` (line 15)
    results,   \* `const results` (line 165)
    thrown,    \* message of the exception travelling to the top-level catch
    response   \* the value the handler returned

vars == <<pc, event, platform, items, results, thrown, response>>

---------------------------------------------------------------------------
(* Bounds of the enumerated inputs *)

\* longest items array in a request
MaxItems == 2
\* texts are enumerated up to this many characters over a limit
MaxOverage == 2

---------------------------------------------------------------------------
(* JavaScript values *)

Undefined == [t |-> "undefined"]
Null == [t |-> "null"]
NaN == [t |-> "NaN"]
\* a member inherited from Object.prototype (a function or an object, never a number)
Inherited == [t |-> "inherited"]
Str(s) == [t |-> "string", s |-> s]
Num(n) == [t |-> "number", n |-> n]
Arr(es) == [t |-> "array", elems |-> es]
Obj(text, type) == [t |-> "object", text |-> text, type |-> type]
Payload(p, its) == [t |-> "payload", platform |-> p, items |-> its]

\* ToBoolean, as used by !x, x && y, x || y
Truthy(v) ==
    CASE v.t = "undefined" -> FALSE
      [] v.t = "null" -> FALSE
      [] v.t = "NaN" -> FALSE
      [] v.t = "string" -> v.s # ""
      [] v.t = "number" -> v.n # 0
      [] OTHER -> TRUE

\* typeof x
TypeOf(v) ==
    CASE v.t = "undefined" -> "undefined"
      [] v.t = "string" -> "string"
      [] v.t \in {"number", "NaN"} -> "number"
      [] OTHER -> "object"

\* Array.isArray(x)
IsArray(v) == v.t = "array"

\* x.text / x.type on an item: undefined unless the item is an object that has it
\* (null.text and undefined.text throw: see ItemThrows)
Prop(item, field) ==
    IF item.t = "object" THEN (IF field = "text" THEN item.text ELSE item.type)
    ELSE Undefined

\* x.length: the UTF-16 length of a string, the element count of an array,
\* undefined on a number
Length(v) ==
    CASE v.t = "string" -> Num(Len(v.s))
      [] v.t = "array" -> Num(Len(v.elems))
      [] OTHER -> Undefined

\* ToNumber of an operand of <=, - and >
ToNumber(v) == IF v.t = "number" THEN v ELSE NaN

\* a <= b: false as soon as an operand is NaN
LessEq(a, b) ==
    /\ ToNumber(a) # NaN
    /\ ToNumber(b) # NaN
    /\ ToNumber(a).n <= ToNumber(b).n

\* a - b
Minus(a, b) ==
    IF ToNumber(a) = NaN \/ ToNumber(b) = NaN THEN NaN
    ELSE Num(ToNumber(a).n - ToNumber(b).n)

\* a > n for a number literal n
Greater(a, n) == ToNumber(a) # NaN /\ ToNumber(a).n > n

\* `${x}` of a string
Template(v) == IF v.t = "string" THEN v.s ELSE TypeOf(v)

---------------------------------------------------------------------------
(* The limit table, lines 130-150 *)

limits ==
    [google_ads |->
        [headline |-> 30, description |-> 90, callout |-> 25, path |-> 15,
         sitelink_text |-> 25, sitelink_desc |-> 35, structured_snippet |-> 25],
     facebook_ads |->
        [headline |-> 40, description |-> 125, link_description |-> 30],
     linkedin_ads |->
        [headline |-> 150, description |-> 600, intro_text |-> 150]]

\* Object.keys(limits): own keys in insertion order
PlatformKeys == <<"google_ads", "facebook_ads", "linkedin_ads">>

\* Object.keys(limits[platform]) for an own platform, in insertion order
TypeKeys(p) ==
    CASE p = "google_ads" ->
            <<"headline", "description", "callout", "path",
              "sitelink_text", "sitelink_desc", "structured_snippet">>
      [] p = "facebook_ads" -> <<"headline", "description", "link_description">>
      [] p = "linkedin_ads" -> <<"headline", "description", "intro_text">>
      [] OTHER -> <<>>

\* Names every object literal inherits from Object.prototype; obj[name] is a
\* function (or, for __proto__, an object) although obj has no such own key.
ObjectPrototypeKeys ==
    {"constructor", "__proto__", "toString", "toLocaleString", "valueOf",
     "hasOwnProperty", "isPrototypeOf", "propertyIsEnumerable"}

\* limits[platform] (line 153): the platform's own table, an inherited member,
\* or undefined
LookupPlatform(p) ==
    IF p \in DOMAIN limits THEN [t |-> "table", name |-> p]
    ELSE IF p \in ObjectPrototypeKeys THEN Inherited
    ELSE Undefined

\* limits[platform][item.type] (line 178): own keys first, then the prototype chain
LookupLimit(table, ty) ==
    IF table.t = "table" /\ ty \in DOMAIN limits[table.name]
    THEN Num(limits[table.name][ty])
    ELSE IF ty \in ObjectPrototypeKeys THEN Inherited
    ELSE Undefined

\* Object.keys(limits[platform]) (line 188); an inherited member has no
\* enumerable own keys
SupportedTypes(table) == IF table.t = "table" THEN TypeKeys(table.name) ELSE <<>>

---------------------------------------------------------------------------
(* items.map, lines 165-208 *)

\* item.text on null or undefined throws a TypeError (line 167)
ItemThrows(item) == item.t \in {"null", "undefined"}

\* Recommendation without the plural
RecommendationSingular(overage) ==
    "Reduce by " \o ToString(overage) \o " character"

\* `Reduce by ${overage} character${overage > 1 ? 's' : ''}` (line 205)
Recommendation(overage) ==
    "Reduce by " \o ToString(overage) \o " character"
        \o (IF overage > 1 THEN "s" ELSE "")

\* MissingFieldResult without the "unknown" default of the type
MissingFieldResultNoDefault(item, index) ==
    [index |-> index,
     error |-> "Item missing 'text' or 'type' field",
     text |-> IF Truthy(Prop(item, "text")) THEN Prop(item, "text") ELSE Str(""),
     type |-> Prop(item, "type")]

\* the result pushed for an item with a falsy text or type (lines 167-174)
MissingFieldResult(item, index) ==
    [index |-> index,
     error |-> "Item missing 'text' or 'type' field",
     text |-> IF Truthy(Prop(item, "text")) THEN Prop(item, "text") ELSE Str(""),
     type |-> IF Truthy(Prop(item, "type")) THEN Prop(item, "type") ELSE Str("unknown")]

\* the result for a type limits[platform] has no value for (lines 181-190)
UnsupportedTypeResult(p, item, index) ==
    [index |-> index,
     text |-> item.text,
     type |-> item.type,
     character_count |-> Length(item.text),
     error |-> "Unsupported type '" \o Template(item.type)
                  \o "' for platform '" \o Template(p) \o "'",
     supported_types |-> SupportedTypes(LookupPlatform(p.s))]

\* IsValid with < in place of <=
IsValidStrict(characterCount, characterLimit) ==
    LessEq(characterCount, characterLimit) /\ characterCount # characterLimit

\* characterCount <= characterLimit (line 192)
IsValid(characterCount, characterLimit) == LessEq(characterCount, characterLimit)

\* isValid ? 0 : characterCount - characterLimit (line 193)
Overage(characterCount, characterLimit) ==
    IF IsValid(characterCount, characterLimit) THEN Num(0)
    ELSE Minus(characterCount, characterLimit)

\* the result of a measured item (lines 192-207); status stands for the check
\* mark U+2713 and the cross U+2717
MeasuredResult(item, index, characterCount, characterLimit) ==
    LET isValid == IsValid(characterCount, characterLimit)
        overage == Overage(characterCount, characterLimit)
    IN  IF Greater(overage, 0)
        THEN [index |-> index,
              text |-> item.text,
              type |-> item.type,
              character_count |-> characterCount,
              character_limit |-> characterLimit,
              is_valid |-> isValid,
              status |-> IF isValid THEN "check" ELSE "cross",
              overage |-> overage,
              recommendation |-> Recommendation(overage.n)]
        ELSE [index |-> index,
              text |-> item.text,
              type |-> item.type,
              character_count |-> characterCount,
              character_limit |-> characterLimit,
              is_valid |-> isValid,
              status |-> IF isValid THEN "check" ELSE "cross",
              overage |-> overage]

\* !item.text || !item.type (line 167)
MissingField(item) == ~Truthy(Prop(item, "text")) \/ ~Truthy(Prop(item, "type"))

\* the callback of items.map for one item that does not throw (lines 165-208)
VerifyItem(p, item, index) ==
    IF MissingField(item) THEN MissingFieldResult(item, index)
    ELSE LET characterCount == Length(item.text)
             characterLimit == LookupLimit(LookupPlatform(p.s), item.type.s)
         IN  IF characterLimit = Undefined
             THEN UnsupportedTypeResult(p, item, index)
             ELSE MeasuredResult(item, index, characterCount, characterLimit)

\* items.map(...): one result per item, index = position counted from 0
MapItems(p, its) == [i \in 1..Len(its.elems) |-> VerifyItem(p, its.elems[i], i - 1)]

\* whether items.map throws
MapThrows(its) == \E i \in 1..Len(its.elems) : ItemThrows(its.elems[i])

---------------------------------------------------------------------------
(* Summary and responses *)

\* r.error is truthy: every error the map writes is a non-empty string
HasError(r) == "error" \in DOMAIN r

\* r.is_valid is truthy
IsValidResult(r) == "is_valid" \in DOMAIN r /\ r.is_valid

\* results.filter(r => !r.error) (line 211)
ValidResults(rs) == SelectSeq(rs, LAMBDA r : ~HasError(r))

\* validResults.filter(r => r.is_valid) (line 212)
ValidItems(rs) == SelectSeq(ValidResults(rs), LAMBDA r : IsValidResult(r))

\* validResults.filter(r => !r.is_valid) (line 213)
InvalidItems(rs) == SelectSeq(ValidResults(rs), LAMBDA r : ~IsValidResult(r))

\* results.filter(r => r.error) (line 214)
ErrorItems(rs) == SelectSeq(rs, LAMBDA r : HasError(r))

\* Summary with total_items counting only the results without an error
SummaryOfValidResults(rs) ==
    [total_items |-> Len(ValidResults(rs)),
     valid_items |-> Len(ValidItems(rs)),
     invalid_items |-> Len(InvalidItems(rs)),
     error_items |-> Len(ErrorItems(rs)),
     all_valid |-> Len(InvalidItems(rs)) = 0 /\ Len(ErrorItems(rs)) = 0]

\* the summary object (lines 221-227)
Summary(rs) ==
    [total_items |-> Len(rs),
     valid_items |-> Len(ValidItems(rs)),
     invalid_items |-> Len(InvalidItems(rs)),
     error_items |-> Len(ErrorItems(rs)),
     all_valid |-> Len(InvalidItems(rs)) = 0 /\ Len(ErrorItems(rs)) = 0]

\* one entry of violations (lines 230-235); item.recommendation reads undefined
\* when the result has no such field
Violation(r) ==
    [text |-> r.text,
     type |-> r.type,
     overage |-> r.overage,
     recommendation |-> IF "recommendation" \in DOMAIN r
                        THEN Str(r.recommendation) ELSE Undefined]

\* invalidItems.map(...) (line 230)
Violations(rs) ==
    [i \in 1..Len(InvalidItems(rs)) |-> Violation(InvalidItems(rs)[i])]

\* the headers object (lines 3-7)
CorsHeaders ==
    ("Access-Control-Allow-Origin" :> "*")
        @@ ("Access-Control-Allow-Headers" :> "Content-Type")
        @@ ("Access-Control-Allow-Methods" :> "GET, POST, OPTIONS")

\* {...headers, "Content-Type": "application/json"} (lines 241-244)
JsonHeaders == CorsHeaders @@ ("Content-Type" :> "application/json")

\* a returned {statusCode, headers, body}; body is the value given to
\* JSON.stringify, or the empty string
Reply(status, headers, body) ==
    [statusCode |-> status, headers |-> headers, body |-> body]

\* the preflight answer (line 11)
OptionsReply == Reply(200, CorsHeaders, Str(""))

\* the answer to malformed `data` (lines 37-52)
InvalidDataReply ==
    Reply(400, CorsHeaders,
          [error |-> "Invalid JSON in data parameter",
           usage |-> [simple |-> "?text=Your+Headline&type=headline&platform=google_ads",
                      complex |-> "?data=..."]])

\* the usage document (lines 57-100)
UsageReply ==
    Reply(200, CorsHeaders,
          [message |-> "Character Verification API",
           version |-> "2.0",
           methods |-> <<"GET", "POST">>,
           usage |-> [get_simple |-> "?text=Your+Headline+Here&type=headline&platform=google_ads",
                      get_complex |-> "?data=...",
                      post |-> "POST"],
           platforms |-> <<"google_ads", "facebook_ads", "linkedin_ads">>,
           limits |-> [google_ads |->
                          [headline |-> 30, description |-> 90,
                           callout |-> 25, path |-> 15]]])

\* the 405 (lines 110-114)
MethodNotAllowedReply ==
    Reply(405, CorsHeaders, [error |-> "Method not allowed. Use GET or POST."])

\* the 400 of the input validation (lines 119-126)
InvalidRequestReply(p, its) ==
    Reply(400, CorsHeaders,
          [error |-> "Invalid request. Expected: platform and items array",
           received |-> [platform |-> p,
                         items |-> IF IsArray(its)
                                   THEN "array[" \o ToString(Len(its.elems)) \o "]"
                                   ELSE TypeOf(its)]])

\* the 400 of the platform check (lines 154-161)
UnsupportedPlatformReply(p) ==
    Reply(400, CorsHeaders,
          [error |-> "Unsupported platform: " \o Template(p),
           supported |-> PlatformKeys])

\* the validation response (lines 217-246)
ValidationReply(p, method, timestamp, rs) ==
    IF Len(InvalidItems(rs)) > 0
    THEN Reply(200, JsonHeaders,
               [platform |-> p,
                method |-> method,
                timestamp |-> timestamp,
                summary |-> Summary(rs),
                results |-> rs,
                violations |-> Violations(rs)])
    ELSE Reply(200, JsonHeaders,
               [platform |-> p,
                method |-> method,
                timestamp |-> timestamp,
                summary |-> Summary(rs),
                results |-> rs])

\* InternalErrorReply without the headers
InternalErrorReplyNoHeaders(message) ==
    Reply(500, <<>>, [error |-> "Internal server error", message |-> message])

\* the 500 of the top-level catch (lines 248-258)
InternalErrorReply(message) ==
    Reply(500, CorsHeaders,
          [error |-> "Internal server error", message |-> message])

---------------------------------------------------------------------------
(* Request parsing, lines 9-115 *)

\* a JSON text: malformed, or denoting a value
MalformedDoc == [t |-> "document", syntax |-> "malformed", value |-> Undefined]
JsonDoc(v) == [t |-> "document", syntax |-> "json", value |-> v]

\* query parameters: every value is a string or absent
Params(text, type, p, data) ==
    [t |-> "params", text |-> text, type |-> type, platform |-> p, data |-> data]

\* event.queryStringParameters || {} (line 20)
QueryParams(e) ==
    IF Truthy(e.queryStringParameters) THEN e.queryStringParameters
    ELSE Params(Undefined, Undefined, Undefined, Undefined)

\* JSON.parse(decodeURIComponent(text)) and JSON.parse(text) throw on malformed text
ParseThrows(doc) == doc.syntax = "malformed"

\* reading .platform of the parsed value throws when the value is null
PayloadThrows(v) == v.t = "null"

\* data.platform, body.platform (lines 34, 106)
PayloadPlatform(v) == IF v.t = "payload" THEN v.platform ELSE Undefined

\* data.items, body.items (lines 35, 107)
PayloadItems(v) == IF v.t = "payload" THEN v.items ELSE Undefined

\* params.text && params.type (line 23)
SimpleForm(params) == Truthy(params.text) /\ Truthy(params.type)

\* else if (params.data) (line 31)
DataForm(params) == ~SimpleForm(params) /\ Truthy(params.data)

\* SimplePlatform without the default
SimplePlatformNoDefault(params) == params.platform

\* params.platform || "google_ads" (line 24)
SimplePlatform(params) ==
    IF Truthy(params.platform) THEN params.platform ELSE Str("google_ads")

\* [{text: params.text, type: params.type}] (lines 25-28)
SimpleItems(params) == Arr(<<Obj(params.text, params.type)>>)

\* event.body || "{}" (line 105)
BodyDoc(e) ==
    IF Truthy(e.body) THEN e.body ELSE JsonDoc(Payload(Undefined, Undefined))

\* whether the try block of the data branch throws (lines 32-35)
DataThrows(params) ==
    ParseThrows(params.data) \/ PayloadThrows(params.data.value)

\* whether the POST branch throws (lines 105-107)
PostThrows(e) == ParseThrows(BodyDoc(e)) \/ PayloadThrows(BodyDoc(e).value)

\* error.message of what the POST branch throws
PostMessage(e) ==
    IF ParseThrows(BodyDoc(e)) THEN "Unexpected token in JSON"
    ELSE "Cannot read properties of null (reading 'platform')"

\* error.message of what items.map throws
MapMessage == "Cannot read properties of null (reading 'text')"

\* !platform || !items || !Array.isArray(items) (line 118)
InvalidInput(p, its) == ~Truthy(p) \/ ~Truthy(its) \/ ~IsArray(its)

\* !limits[platform] (line 153)
PlatformMissing(p) == ~Truthy(LookupPlatform(p.s))

\* lines 117-246 for a parsed platform and items
Process(p, its, method, timestamp) ==
    IF InvalidInput(p, its) THEN InvalidRequestReply(p, its)
    ELSE IF PlatformMissing(p) THEN UnsupportedPlatformReply(p)
    ELSE IF MapThrows(its) THEN InternalErrorReply(MapMessage)
    ELSE ValidationReply(p, method, timestamp, MapItems(p, its))

\* the whole handler as a function of the request and the clock (lines 1-260)
Handle(e, timestamp) ==
    LET params == QueryParams(e)
    IN  CASE e.httpMethod = "OPTIONS" -> OptionsReply
          [] e.httpMethod = "GET" /\ SimpleForm(params) ->
                Process(SimplePlatform(params), SimpleItems(params), "GET", timestamp)
          [] e.httpMethod = "GET" /\ DataForm(params) ->
                IF DataThrows(params) THEN InvalidDataReply
                ELSE Process(PayloadPlatform(params.data.value),
                             PayloadItems(params.data.value), "GET", timestamp)
          [] e.httpMethod = "GET" /\ ~SimpleForm(params) /\ ~DataForm(params) ->
                UsageReply
          [] e.httpMethod = "POST" ->
                IF PostThrows(e) THEN InternalErrorReply(PostMessage(e))
                ELSE Process(PayloadPlatform(BodyDoc(e).value),
                             PayloadItems(BodyDoc(e).value), "POST", timestamp)
          [] OTHER -> MethodNotAllowedReply

---------------------------------------------------------------------------
(* The requests enumerated *)

RECURSIVE Repeat(_, _)
Repeat(c, n) ==
    IF n = 0 THEN ""
    ELSE LET half == Repeat(c, n \div 2)
         IN  half \o half \o (IF n % 2 = 1 THEN c ELSE "")

\* limits the enumerated texts straddle
BoundaryLimits ==
    {limits.google_ads.path, limits.google_ads.headline,
     limits.facebook_ads.headline, limits.linkedin_ads.headline}

TextLengths == {1} \cup {l + d : l \in BoundaryLimits, d \in 0..MaxOverage}

TextStrings == {Str(Repeat("x", n)) : n \in TextLengths} \cup {Str("")}

\* item.text: absent, a string, or a JSON number
TextValues == {Undefined, Num(7)} \cup TextStrings

\* item.type: absent or a string
TypeValues ==
    {Undefined, Str(""), Str("headline"), Str("path"), Str("constructor")}

PlatformValues ==
    {Undefined, Str(""), Str("google_ads"), Str("facebook_ads"),
     Str("linkedin_ads"), Str("tiktok_ads"), Str("constructor")}

\* an element of items: null, a number, or an object
ItemValues == {Null, Num(5)} \cup {Obj(tx, ty) : tx \in TextValues, ty \in TypeValues}

\* the items of the longer arrays: texts around the google_ads headline limit
CoreTexts ==
    {Undefined, Str("")}
        \cup {Str(Repeat("x", limits.google_ads.headline + d)) : d \in 0..2}

CoreItems ==
    {Null}
        \cup {Obj(tx, ty) : tx \in CoreTexts,
                            ty \in {Undefined, Str("headline"), Str("constructor")}}

\* arrays of at most one item hold any item; longer ones hold the core items
ItemLists ==
    {<<>>}
        \cup {<<it>> : it \in ItemValues}
        \cup UNION {[1..n -> CoreItems] : n \in 2..MaxItems}

\* the items member: absent, not an array, or an array
ItemsValues == {Undefined, Str("headline")} \cup {Arr(l) : l \in ItemLists}

Docs ==
    {MalformedDoc, JsonDoc(Null)}
        \cup {JsonDoc(Payload(p, its)) : p \in PlatformValues, its \in ItemsValues}

\* the documents enumerated for the `data` parameter: arrays of at most one item
DataDocs ==
    {d \in Docs : IsArray(PayloadItems(d.value)) => Len(d.value.items.elems) <= 1}

SampleDoc == JsonDoc(Payload(Str("facebook_ads"), Arr(<<Obj(Str("x"), Str("headline"))>>)))

Request(method, params, body) ==
    [httpMethod |-> method, queryStringParameters |-> params, body |-> body]

GetEvents ==
    {Request("GET", Null, Undefined)}
        \cup {Request("GET", Params(tx, ty, p, d), Undefined) :
                tx \in {Undefined} \cup TextStrings,
                ty \in TypeValues,
                p \in PlatformValues,
                d \in {Undefined, Str(""), MalformedDoc, SampleDoc}}
        \cup {Request("GET", Params(Undefined, Undefined, Undefined, d), Undefined) :
                d \in DataDocs}

PostEvents == {Request("POST", Null, b) : b \in {Undefined, Str("")} \cup Docs}

Events ==
    {Request("OPTIONS", Null, Undefined), Request("DELETE", Null, Undefined)}
        \cup GetEvents \cup PostEvents

\* no request is being handled
NoEvent == Request("", Null, Undefined)

\* values of new Date().toISOString() (line 220)
Timestamps == {"2024-01-01T00:00:00.000Z", "2024-01-01T00:00:01.000Z"}

---------------------------------------------------------------------------
(* The handler, stage by stage *)

Init ==
    /\ pc = "idle"
    /\ event = NoEvent
    /\ platform = Undefined
    /\ items = Undefined
    /\ results = <<>>
    /\ thrown = ""
    /\ response = Undefined

\* the platform calls exports.handler with a request (line 1)
Invoke ==
    /\ pc = "idle"
    /\ event' \in Events
    /\ pc' = "start"
    /\ platform' = Undefined
    /\ items' = Undefined
    /\ results' = <<>>
    /\ thrown' = ""
    /\ response' = Undefined

Return(r) ==
    /\ response' = r
    /\ pc' = "done"

\* lines 10-12
Options ==
    /\ pc = "start"
    /\ event.httpMethod = "OPTIONS"
    /\ Return(OptionsReply)
    /\ UNCHANGED <<event, platform, items, results, thrown>>

\* lines 23-29
GetSimple ==
    /\ pc = "start"
    /\ event.httpMethod = "GET"
    /\ SimpleForm(QueryParams(event))
    /\ platform' = SimplePlatform(QueryParams(event))
    /\ items' = SimpleItems(QueryParams(event))
    /\ pc' = "parsed"
    /\ UNCHANGED <<event, results, thrown, response>>

\* lines 31-35
GetData ==
    /\ pc = "start"
    /\ event.httpMethod = "GET"
    /\ DataForm(QueryParams(event))
    /\ ~DataThrows(QueryParams(event))
    /\ platform' = PayloadPlatform(QueryParams(event).data.value)
    /\ items' = PayloadItems(QueryParams(event).data.value)
    /\ pc' = "parsed"
    /\ UNCHANGED <<event, results, thrown, response>>

\* lines 36-53
GetDataInvalid ==
    /\ pc = "start"
    /\ event.httpMethod = "GET"
    /\ DataForm(QueryParams(event))
    /\ DataThrows(QueryParams(event))
    /\ Return(InvalidDataReply)
    /\ UNCHANGED <<event, platform, items, results, thrown>>

\* lines 56-101
GetUsage ==
    /\ pc = "start"
    /\ event.httpMethod = "GET"
    /\ ~SimpleForm(QueryParams(event))
    /\ ~DataForm(QueryParams(event))
    /\ Return(UsageReply)
    /\ UNCHANGED <<event, platform, items, results, thrown>>

\* lines 103-108
Post ==
    /\ pc = "start"
    /\ event.httpMethod = "POST"
    /\ ~PostThrows(event)
    /\ platform' = PayloadPlatform(BodyDoc(event).value)
    /\ items' = PayloadItems(BodyDoc(event).value)
    /\ pc' = "parsed"
    /\ UNCHANGED <<event, results, thrown, response>>

\* lines 105-106 throwing into the catch of line 248
PostThrow ==
    /\ pc = "start"
    /\ event.httpMethod = "POST"
    /\ PostThrows(event)
    /\ thrown' = PostMessage(event)
    /\ pc' = "catch"
    /\ UNCHANGED <<event, platform, items, results, response>>

\* lines 109-115
MethodNotAllowed ==
    /\ pc = "start"
    /\ event.httpMethod \notin {"OPTIONS", "GET", "POST"}
    /\ Return(MethodNotAllowedReply)
    /\ UNCHANGED <<event, platform, items, results, thrown>>

\* lines 118-127, the request is rejected
RejectInput ==
    /\ pc = "parsed"
    /\ InvalidInput(platform, items)
    /\ Return(InvalidRequestReply(platform, items))
    /\ UNCHANGED <<event, platform, items, results, thrown>>

\* line 118, the request passes
AcceptInput ==
    /\ pc = "parsed"
    /\ ~InvalidInput(platform, items)
    /\ pc' = "validated"
    /\ UNCHANGED <<event, platform, items, results, thrown, response>>

\* lines 153-162, the platform is rejected
RejectPlatform ==
    /\ pc = "validated"
    /\ PlatformMissing(platform)
    /\ Return(UnsupportedPlatformReply(platform))
    /\ UNCHANGED <<event, platform, items, results, thrown>>

\* line 153, the platform passes
AcceptPlatform ==
    /\ pc = "validated"
    /\ ~PlatformMissing(platform)
    /\ pc' = "checked"
    /\ UNCHANGED <<event, platform, items, results, thrown, response>>

\* lines 165-208
VerifyItems ==
    /\ pc = "checked"
    /\ ~MapThrows(items)
    /\ results' = MapItems(platform, items)
    /\ pc' = "verified"
    /\ UNCHANGED <<event, platform, items, thrown, response>>

\* line 167 throwing into the catch of line 248
VerifyItemsThrow ==
    /\ pc = "checked"
    /\ MapThrows(items)
    /\ thrown' = MapMessage
    /\ pc' = "catch"
    /\ UNCHANGED <<event, platform, items, results, response>>

\* lines 210-246
Respond ==
    /\ pc = "verified"
    /\ \E ts \in Timestamps :
          Return(ValidationReply(platform, event.httpMethod, ts, results))
    /\ UNCHANGED <<event, platform, items, results, thrown>>

\* lines 248-258
CatchError ==
    /\ pc = "catch"
    /\ Return(InternalErrorReply(thrown))
    /\ UNCHANGED <<event, platform, items, results, thrown>>

Next ==
    \/ Invoke
    \/ Options
    \/ GetSimple
    \/ GetData
    \/ GetDataInvalid
    \/ GetUsage
    \/ Post
    \/ PostThrow
    \/ MethodNotAllowed
    \/ RejectInput
    \/ AcceptInput
    \/ RejectPlatform
    \/ AcceptPlatform
    \/ VerifyItems
    \/ VerifyItemsThrow
    \/ Respond
    \/ CatchError

Spec == Init /\ [][Next]_vars

---------------------------------------------------------------------------
(* Vocabulary of the properties *)

\* the handler has returned
Done == pc = "done"

\* the handler returned a validation response
IsValidation == Done /\ "results" \in DOMAIN response.body

\* the request is one from which a platform and items were extracted
Extracted(e) ==
    \/ e.httpMethod = "GET" /\ SimpleForm(QueryParams(e))
    \/ e.httpMethod = "GET" /\ DataForm(QueryParams(e)) /\ ~DataThrows(QueryParams(e))
    \/ e.httpMethod = "POST" /\ ~PostThrows(e)

\* the keys of the limit table, as the specification lists them
TableKeys == {"google_ads", "facebook_ads", "linkedin_ads"}

\* the platform extracted from the request is a key of the limit table
SupportedPlatform == platform.t = "string" /\ platform.s \in TableKeys

\* the field types the table lists for the platform
ListedTypes == DOMAIN limits[platform.s]

\* item i has a non-empty string type the table lists for the platform
ListedType(i) ==
    /\ items.elems[i].t = "object"
    /\ items.elems[i].type.t = "string"
    /\ items.elems[i].type.s \in ListedTypes

\* item i has a string text (possibly empty)
StringText(i) == items.elems[i].t = "object" /\ items.elems[i].text.t = "string"

\* the limit of item i, whose type is listed
LimitOf(i) == limits[platform.s][items.elems[i].type.s]

\* the length of the text of item i
TextLen(i) == Len(items.elems[i].text.s)

\* item i has a missing or falsy text or type
Incomplete(i) ==
    \/ items.elems[i].t # "object"
    \/ items.elems[i].text.t \in {"undefined", "null"}
    \/ items.elems[i].text = Str("")
    \/ items.elems[i].type.t \in {"undefined", "null"}
    \/ items.elems[i].type = Str("")

Indices == 1..Len(items.elems)

\* result i of the response
Result(i) == response.body.results[i]

\* every response the stages produce is the one the handler computes
StagesAgree ==
    Done => \E ts \in Timestamps : response = Handle(event, ts)

---------------------------------------------------------------------------
(* Properties *)

\* C1: a GET or POST request whose platform is not one of the three keys of the
\* limit table is answered 400 and no item is validated.
C1_UnknownPlatformIs400 ==
    (Done /\ Extracted(event) /\ ~SupportedPlatform)
        => (response.statusCode = 400 /\ results = <<>>)

\* C2: malformed JSON, in the POST body or in the data parameter, is answered
\* 400 with a body that carries a usage hint.
C2_MalformedJsonIs400 ==
    (Done /\ (\/ /\ event.httpMethod = "POST"
                 /\ ParseThrows(BodyDoc(event))
              \/ /\ event.httpMethod = "GET"
                 /\ DataForm(QueryParams(event))
                 /\ ParseThrows(QueryParams(event).data)))
        => (response.statusCode = 400 /\ "usage" \in DOMAIN response.body)

\* C3: on a supported platform an item with a non-empty text and a type the
\* table does not list for the platform gets the "Unsupported type" error and
\* the platform's supported types, no is_valid, character_limit or overage, and
\* is counted in error_items, never in invalid_items.
C3_UnlistedTypeIsError ==
    (IsValidation /\ SupportedPlatform)
        => /\ \A i \in Indices :
                (/\ ~Incomplete(i)
                 /\ items.elems[i].type.t = "string"
                 /\ items.elems[i].type.s \notin ListedTypes)
                    => /\ "error" \in DOMAIN Result(i)
                       /\ Result(i).error =
                            "Unsupported type '" \o items.elems[i].type.s
                                \o "' for platform '" \o platform.s \o "'"
                       /\ Result(i).supported_types = TypeKeys(platform.s)
                       /\ DOMAIN Result(i)
                            \cap {"is_valid", "character_limit", "overage"} = {}
           /\ response.body.summary.invalid_items
                <= Cardinality({i \in Indices : ~Incomplete(i) /\ ListedType(i)})

\* the result of an item within its limit, as C4 describes it
WithinLimitResult(i) ==
    /\ "is_valid" \in DOMAIN Result(i)
    /\ Result(i).is_valid = TRUE
    /\ Result(i).overage = Num(0)
    /\ "recommendation" \notin DOMAIN Result(i)

\* C4 as stated: every item of a supported platform and a listed type whose
\* text length is at most the limit has is_valid = true, overage = 0 and no
\* recommendation.
C4_WithinLimitIsValid ==
    (IsValidation /\ SupportedPlatform)
        => \A i \in Indices :
              (ListedType(i) /\ StringText(i) /\ TextLen(i) <= LimitOf(i))
                  => WithinLimitResult(i)

\* C4 amended: the same for every such item whose text is not empty.
C4_NonEmptyWithinLimitIsValid ==
    (IsValidation /\ SupportedPlatform)
        => \A i \in Indices :
              (/\ ListedType(i)
               /\ StringText(i)
               /\ TextLen(i) > 0
               /\ TextLen(i) <= LimitOf(i))
                  => WithinLimitResult(i)

\* a text of exactly the limit's length was reported valid
C4_Witness ==
    /\ IsValidation
    /\ SupportedPlatform
    /\ \E i \in Indices :
          /\ ListedType(i)
          /\ StringText(i)
          /\ TextLen(i) = LimitOf(i)
          /\ WithinLimitResult(i)

\* C5: every item of a validated request whose text is longer than the limit has
\* is_valid = false, overage = length - limit, and the recommendation
\* "Reduce by <overage> character", with "s" exactly when overage > 1; the
\* response is still a 200.
C5_OverLimitIsInvalid ==
    (/\ Done
     /\ Extracted(event)
     /\ SupportedPlatform
     /\ IsArray(items)
     /\ \A i \in Indices : items.elems[i].t = "object")
        => /\ response.statusCode = 200
           /\ "results" \in DOMAIN response.body
           /\ \A i \in Indices :
                (ListedType(i) /\ StringText(i) /\ TextLen(i) > LimitOf(i))
                    => /\ "is_valid" \in DOMAIN Result(i)
                       /\ Result(i).is_valid = FALSE
                       /\ Result(i).character_count = Num(TextLen(i))
                       /\ Result(i).character_limit = Num(LimitOf(i))
                       /\ Result(i).overage = Num(TextLen(i) - LimitOf(i))
                       /\ "recommendation" \in DOMAIN Result(i)
                       /\ Result(i).recommendation =
                            "Reduce by " \o ToString(TextLen(i) - LimitOf(i))
                                \o (IF TextLen(i) - LimitOf(i) > 1
                                    THEN " characters" ELSE " character")

\* one response reports an item one character over ("Reduce by 1 character")
\* and an item two characters over ("Reduce by 2 characters")
C5_Witness ==
    /\ IsValidation
    /\ SupportedPlatform
    /\ \E i, j \in Indices :
          /\ ListedType(i) /\ StringText(i) /\ TextLen(i) = LimitOf(i) + 1
          /\ Result(i).recommendation = "Reduce by 1 character"
          /\ ListedType(j) /\ StringText(j) /\ TextLen(j) = LimitOf(j) + 2
          /\ Result(j).recommendation = "Reduce by 2 characters"

\* C6: in a validation response total_items is the number of results, there is
\* one result per item, result i carries index i, and all_valid holds exactly
\* when invalid_items and error_items are both 0.
C6_SummaryTotals ==
    IsValidation
        => /\ response.statusCode = 200
           /\ response.body.summary.total_items = Len(response.body.results)
           /\ Len(response.body.results) = Len(items.elems)
           /\ \A i \in Indices :
                /\ Result(i).index = i - 1
                /\ Result(i).text
                     = IF Truthy(Prop(items.elems[i], "text"))
                       THEN items.elems[i].text ELSE Str("")
           /\ response.body.summary.all_valid
                <=> (/\ response.body.summary.invalid_items = 0
                     /\ response.body.summary.error_items = 0)

\* a response with two results, one of them an error, and all_valid false
C6_Witness ==
    /\ IsValidation
    /\ Len(response.body.results) = 2
    /\ response.body.summary.error_items = 1
    /\ response.body.summary.valid_items = 1
    /\ ~response.body.summary.all_valid

InvalidIndices ==
    {i \in 1..Len(response.body.results) :
        /\ "error" \notin DOMAIN Result(i)
        /\ ~Result(i).is_valid}

\* C8: a validation response has a violations list exactly when invalid_items > 0;
\* the list has one entry per invalid result, in result order, each with that
\* result's text, type, overage (> 0) and recommendation.
C8_ViolationsListInvalidItems ==
    IsValidation
        => /\ "violations" \in DOMAIN response.body
                <=> response.body.summary.invalid_items > 0
           /\ "violations" \in DOMAIN response.body
                => /\ Len(response.body.violations) = Cardinality(InvalidIndices)
                   /\ \A k \in 1..Len(response.body.violations) :
                        \E i \in InvalidIndices :
                            /\ Cardinality({j \in InvalidIndices : j <= i}) = k
                            /\ response.body.violations[k].text = Result(i).text
                            /\ response.body.violations[k].type = Result(i).type
                            /\ response.body.violations[k].overage = Result(i).overage
                            /\ response.body.violations[k].overage.t = "number"
                            /\ response.body.violations[k].overage.n > 0
                            /\ "recommendation" \in DOMAIN Result(i)
                            /\ response.body.violations[k].recommendation
                                 = Str(Result(i).recommendation)

\* the POST request C9 compares a text+type GET request with; the platform is
\* the one given, or google_ads when none is given
PostOf(e) ==
    Request("POST", Null,
            JsonDoc(Payload(IF QueryParams(e).platform = Undefined
                            THEN Str("google_ads") ELSE QueryParams(e).platform,
                            Arr(<<Obj(QueryParams(e).text, QueryParams(e).type)>>))))

\* the same, the platform being google_ads also when the one given is empty
PostOfNonEmpty(e) ==
    Request("POST", Null,
            JsonDoc(Payload(IF QueryParams(e).platform \in {Undefined, Str("")}
                            THEN Str("google_ads") ELSE QueryParams(e).platform,
                            Arr(<<Obj(QueryParams(e).text, QueryParams(e).type)>>))))

\* two responses that differ at most in the method and timestamp fields
SameOutcome(a, b) ==
    /\ a.statusCode = b.statusCode
    /\ a.headers = b.headers
    /\ DOMAIN a.body = DOMAIN b.body
    /\ IF "results" \in DOMAIN a.body
       THEN /\ a.body.platform = b.body.platform
            /\ a.body.summary = b.body.summary
            /\ a.body.results = b.body.results
            /\ "violations" \in DOMAIN a.body
                 => a.body.violations = b.body.violations
       ELSE a.body = b.body

\* C9 as stated: a GET request with text and type parameters is answered as the
\* POST request of the same platform (google_ads when absent), text and type,
\* whatever the data parameter.
C9_SimpleGetEqualsPost ==
    (/\ Done
     /\ event.httpMethod = "GET"
     /\ QueryParams(event).text # Undefined
     /\ QueryParams(event).type # Undefined)
        => \E ts \in Timestamps : SameOutcome(response, Handle(PostOf(event), ts))

\* C9 amended: the same for non-empty text and type parameters, the platform
\* being google_ads when absent or empty.
C9_NonEmptySimpleGetEqualsPost ==
    (/\ Done
     /\ event.httpMethod = "GET"
     /\ QueryParams(event).text \notin {Undefined, Str("")}
     /\ QueryParams(event).type \notin {Undefined, Str("")})
        => /\ \E ts \in Timestamps :
                SameOutcome(response, Handle(PostOfNonEmpty(event), ts))
           /\ "method" \in DOMAIN response.body => response.body.method = "GET"

\* a text+type GET request without a platform, and with a data parameter, was
\* answered with the google_ads validation of its single item
C9_Witness ==
    /\ IsValidation
    /\ event.httpMethod = "GET"
    /\ QueryParams(event).platform = Undefined
    /\ Truthy(QueryParams(event).data)
    /\ response.body.platform = Str("google_ads")
    /\ Len(response.body.results) = 1
    /\ "violations" \in DOMAIN response.body

\* C10: every response carries the three CORS headers.
C10_CorsHeadersAlways ==
    Done
        => /\ {"Access-Control-Allow-Origin", "Access-Control-Allow-Headers",
               "Access-Control-Allow-Methods"} \subseteq DOMAIN response.headers
           /\ response.headers["Access-Control-Allow-Origin"] = "*"
           /\ response.headers["Access-Control-Allow-Headers"] = "Content-Type"
           /\ response.headers["Access-Control-Allow-Methods"] = "GET, POST, OPTIONS"

\* the top-level catch answered 500 with the CORS headers
C10_Witness ==
    /\ Done
    /\ response.statusCode = 500
    /\ "Access-Control-Allow-Origin" \in DOMAIN response.headers

=============================================================================
